---- MODULE Spec2Model ----
(***************************************************************************)
(* MPV-Pi-Player: the playback controller (mpv_controller.py), the sync    *)
(* manager (sync_manager.py) and the role switch of the application        *)
(* (app.py) as a state machine.                                            *)
(*                                                                         *)
(* The controller object's fields are variables; the engine process and    *)
(* its IPC socket file are the environment.  Every public method of the    *)
(* controller is one action (the method runs to its return); the           *)
(* background monitor thread is split at its two blocking engine queries,  *)
(* which is where the other threads run in between.                        *)
(*                                                                         *)
(* Every SyncManager the application constructs is an entry of `managers`; *)
(* its thread runs an asyncio loop whose coroutines are split at their     *)
(* awaits and at their calls of the player, between which the monitor and  *)
(* request threads run.  The peers (the subordinates of a primary, the     *)
(* primary of a subordinate) and the listening port are the environment.   *)
(*                                                                         *)
(* Positions and durations are in ticks of 0.2 s, the smallest amount the  *)
(* drift correction distinguishes; Second is the number of ticks in 1 s.   *)
(***************************************************************************)
EXTENDS Integers, Sequences, FiniteSets

\* Ticks in one second.
Second == 5

\* Longest media duration the engine reports, in ticks (model bound).
MaxDur == 6

\* Python's None for current_file.
None == "None"

\* Files present in the media directory, and a path that does not exist.
MediaFiles == {"a.mp4", "b.mp4"}
MissingFiles == {"x.mp4"}
Paths == MediaFiles \cup MissingFiles

\* os.path.exists(filepath)
exists(filepath) == filepath \in MediaFiles

\* Arguments the callers pass to seek() and set_volume().
SeekPositions == 0..MaxDur
Levels == {-5, 50, 105}

\* config.get('volume', 100)
DefaultVolume == 100

\* SyncManager objects the application constructs in one run (model bound).
MaxManagers == 2
Managers == 1..MaxManagers

\* The connections subordinates can open to this device's sync port.
Conns == {"c1", "c2"}

\* The address a request to become a subordinate carries ("" when absent).
MasterAddress == "10.0.0.2"

VARIABLES
    state,          \* self.state: "stopped" | "playing" | "paused"
    current_file,   \* self.current_file: None or a path
    process,        \* self.process: "none" (None), or the Popen handle's
                    \* process: "running" (poll() is None) | "exited"
    position,       \* self.position
    duration,       \* self.duration
    volume,         \* self.volume
    mpv_socket,     \* os.path.exists(self.mpv_socket)
    loop,           \* self.config.get('loop', False)
    pc,             \* where the monitor thread is: "check" | "pos" | "dur"
    call,           \* the step just taken: operation, arguments, return value
    sent,           \* the engine commands that step passed to _send_command,
                    \* each with its outcome
    sync_mode,      \* config['sync_mode']
    master_ip,      \* config['master_ip']
    sync_manager,   \* app.sync_manager: 0 (None) or the current SyncManager
    managers,       \* the SyncManager objects constructed so far, and where
                    \* the coroutines of each one's thread are
    port,           \* the manager whose server is bound to sync_port (0: none)
    peers,          \* per connection in Conns: the manager whose handler
                    \* serves it (0: not connected) and whether the
                    \* subordinate's end is still open
    switch,         \* the role a request is switching to while it waits
                    \* in stop()'s join
    tasks,          \* the send_to_slaves tasks created and not yet run
    wire            \* the messages the step just taken put on a websocket

\* A step of the controller or its engine in which the sync code takes no
\* part.
no_sync ==
    /\ wire' = <<>>
    /\ UNCHANGED <<sync_mode, master_ip, sync_manager, managers, port, peers,
                   switch, tasks>>

vars == <<state, current_file, process, position, duration, volume,
          mpv_socket, loop, pc, call, sent, sync_mode, master_ip,
          sync_manager, managers, port, peers, switch, tasks, wire>>

\* The PlaybackState fields of the controller.
playback == <<state, current_file, position, duration, volume>>

\* A message slot that holds no message.
NoMsg == [type |-> "none"]

\* No role switch is under way.
NoSwitch == [to |-> "none"]

\* A connection of Conns that is not established.
NoPeer == [mgr |-> 0, open |-> FALSE]

\* A SyncManager not constructed yet.  Of a constructed one: mode, player
\* (whether a player was passed), running, sync_thread (whether the field
\* holds a thread) and connected_slaves are the object's fields; server is
\* "none", "starting", "listening" or "failed" (bind error, thread ended);
\* bc is where _broadcast_master_state is ("off", "tick", "read", "send",
\* "exit")
\* with the connections its for loop has visited, the size of the set when
\* the loop began, its local set disconnected and its message; conn is
\* where _connect_to_master is ("off", "start", "connect", "backoff",
\* "session", "exit") or where the _apply_sync_state it awaits is ("file",
\* "state", "reconcile", "position", "volume"), with the snapshot being
\* applied (state) and the local slave_state.
NoManager ==
    [mode |-> "none", player |-> FALSE, running |-> FALSE,
     sync_thread |-> FALSE, server |-> "none", connected_slaves |-> {},
     bc |-> "off", visited |-> {}, size |-> 0, disconnected |-> {},
     message |-> NoMsg, conn |-> "off", data |-> NoMsg,
     slave_state |-> "none"]

\* SyncManager.__init__
SyncManager(mode, player) ==
    [NoManager EXCEPT !.mode = mode, !.player = player]

\* app.py before initialize(): DEFAULT_CONFIG, no sync manager.
NoSync ==
    /\ sync_mode = "standalone"
    /\ master_ip = ""
    /\ sync_manager = 0
    /\ managers = [m \in Managers |-> NoManager]
    /\ port = 0
    /\ peers = [c \in Conns |-> NoPeer]
    /\ switch = NoSwitch
    /\ tasks = <<>>
    /\ wire = <<>>

\* MPVController.__init__
CtlInit ==
    /\ state = "stopped"
    /\ current_file = None
    /\ process = "none"
    /\ position = 0
    /\ duration = 0
    /\ volume = DefaultVolume
    /\ mpv_socket = FALSE
    /\ loop \in BOOLEAN
    /\ pc = "check"
    /\ call = [op |-> "init"]
    /\ sent = <<>>

\* The controller of a device that runs standalone.
Init == CtlInit /\ NoSync

\* _send_command: False when the socket file is absent or nothing accepts the
\* connection (every exception is caught); with an engine listening the
\* reply is {"error": "success"} or something else.
send_command ==
    IF mpv_socket /\ process = "running" THEN BOOLEAN ELSE {FALSE}

\* _get_property: None (the empty tuple) when the socket file is absent, the
\* connection fails or the engine answers an error; otherwise the value.
get_property(values) ==
    IF mpv_socket /\ process = "running"
    THEN {<<>>} \cup {<<v>> : v \in values}
    ELSE {<<>>}

\* What the engine can report for time-pos and for duration.
TimePos == 0..MaxDur
Durations == {0, MaxDur}

\* Outcomes of process.terminate() / process.kill() on a running process:
\* the process is gone, or the call raises (caught by stop()'s except).
Terminate == {"done", "raised"}

\* Outcomes of subprocess.Popen(cmd) in play().
Launch == {"started", "raised"}

\* stop(), lines 179-208, as the values it leaves and returns.  quit's result
\* is ignored by the code; rm is whether os.remove of the socket file works.
stop_result(term, rm) ==
    IF process = "running" /\ term = "raised"
    THEN [state |-> state, current_file |-> current_file, process |-> process,
          position |-> position, duration |-> duration,
          mpv_socket |-> mpv_socket, ok |-> FALSE]
    ELSE [state |-> "stopped", current_file |-> None, process |-> "none",
          position |-> 0, duration |-> 0,
          mpv_socket |-> (mpv_socket /\ ~rm), ok |-> TRUE]

\* MPVController.stop
stop(quit, term, rm) ==
    LET s == stop_result(term, rm) IN
    /\ sent' = <<[verb |-> "quit", ok |-> quit]>>
    /\ state' = s.state
    /\ current_file' = s.current_file
    /\ process' = s.process
    /\ position' = s.position
    /\ duration' = s.duration
    /\ mpv_socket' = s.mpv_socket
    /\ call' = [op |-> "stop", ok |-> s.ok]
    /\ UNCHANGED <<volume, loop, pc>>

\* MPVController.play: stop() first, then the existence check, then Popen.
\* call.via is self.state as play's own stop() left it, before line 123.
play(filepath, quit, term, rm, launch) ==
    LET s == stop_result(term, rm)
        found == exists(filepath)
        started == found /\ launch = "started"
    IN
    /\ sent' = <<[verb |-> "quit", ok |-> quit]>>
    /\ current_file' = IF found THEN filepath ELSE s.current_file
    /\ process' = IF started THEN "running" ELSE s.process
    /\ state' = IF started THEN "playing" ELSE s.state
    /\ position' = s.position
    /\ duration' = s.duration
    /\ mpv_socket' = s.mpv_socket
    /\ call' = [op |-> "play", file |-> filepath, ok |-> started,
                 via |-> s.state]
    /\ UNCHANGED <<volume, loop, pc>>

\* The state flip of pause() after a successful 'cycle pause', lines 161-164.
toggle(s) ==
    IF s = "playing" THEN "paused"
    ELSE IF s = "paused" THEN "playing"
    ELSE s

\* Mutant of cycle_pause: the flip is made whatever the command returned.
cycle_pause_unchecked(op, ok) ==
    /\ sent' = <<[verb |-> "cycle", ok |-> ok]>>
    /\ state' = toggle(state)
    /\ call' = [op |-> op, ok |-> ok]
    /\ UNCHANGED <<current_file, process, position, duration, volume,
                   mpv_socket, loop, pc>>

\* The body of pause(), run for pause() itself or on behalf of resume().
cycle_pause(op, ok) ==
    /\ sent' = <<[verb |-> "cycle", ok |-> ok]>>
    /\ state' = IF ok THEN toggle(state) ELSE state
    /\ call' = [op |-> op, ok |-> ok]
    /\ UNCHANGED <<current_file, process, position, duration, volume,
                   mpv_socket, loop, pc>>

\* MPVController.pause
pause(ok) == cycle_pause("pause", ok)

\* Mutant of resume: the toggle is sent in every state.
resume_always(ok) ==
    /\ sent' = <<[verb |-> "cycle", ok |-> ok]>>
    /\ state' = IF ok THEN toggle(state) ELSE state
    /\ call' = [op |-> "resume", ok |-> ok]
    /\ UNCHANGED <<current_file, process, position, duration, volume,
                   mpv_socket, loop, pc>>

\* MPVController.resume
resume(ok) ==
    IF state = "paused"
    THEN cycle_pause("resume", ok)
    ELSE /\ sent' = <<>>
         /\ call' = [op |-> "resume", ok |-> TRUE]
         /\ UNCHANGED <<state, current_file, process, position, duration,
                        volume, mpv_socket, loop, pc>>

\* Mutant of seek: the cached position is written before the outcome is known.
seek_unchecked(pos, ok) ==
    /\ sent' = <<[verb |-> "seek", pos |-> pos, ok |-> ok]>>
    /\ position' = pos
    /\ call' = [op |-> "seek", pos |-> pos, ok |-> ok]
    /\ UNCHANGED <<state, current_file, process, duration, volume,
                   mpv_socket, loop, pc>>

\* MPVController.seek
seek(pos, ok) ==
    /\ sent' = <<[verb |-> "seek", pos |-> pos, ok |-> ok]>>
    /\ position' = IF ok THEN pos ELSE position
    /\ call' = [op |-> "seek", pos |-> pos, ok |-> ok]
    /\ UNCHANGED <<state, current_file, process, duration, volume,
                   mpv_socket, loop, pc>>

\* max(0, min(100, level))
clamp(level) ==
    IF level < 0 THEN 0 ELSE IF level > 100 THEN 100 ELSE level

\* MPVController.set_volume: the cached volume is assigned before the
\* command is sent.
set_volume(level, ok) ==
    /\ volume' = clamp(level)
    /\ sent' = <<[verb |-> "set_volume", level |-> clamp(level), ok |-> ok]>>
    /\ call' = [op |-> "set_volume", level |-> level, ok |-> ok]
    /\ UNCHANGED <<state, current_file, process, position, duration,
                   mpv_socket, loop, pc>>

\* Mutant of get_state: a detected exit does not clear current_file.
get_state_keeps_file ==
    /\ state' = IF process = "exited" THEN "stopped" ELSE state
    /\ sent' = <<>>
    /\ call' = [op |-> "get_state"]
    /\ UNCHANGED <<current_file, process, position, duration, volume,
                   mpv_socket, loop, pc>>

\* MPVController.get_state
get_state ==
    /\ IF process = "exited"
       THEN state' = "stopped" /\ current_file' = None
       ELSE UNCHANGED <<state, current_file>>
    /\ sent' = <<>>
    /\ call' = [op |-> "get_state"]
    /\ UNCHANGED <<process, position, duration, volume, mpv_socket, loop, pc>>

\* _monitor_position, line 340: the test of self.state that opens an
\* iteration (an iteration that finds another state only sleeps).
monitor_check ==
    /\ pc = "check"
    /\ pc' = IF state = "playing" THEN "pos" ELSE "check"
    /\ sent' = <<>>
    /\ call' = [op |-> "monitor_check"]
    /\ UNCHANGED <<state, current_file, process, position, duration, volume,
                   mpv_socket, loop>>

\* _monitor_position, lines 342-344: query time-pos, store it.
monitor_pos(pos) ==
    /\ pc = "pos"
    /\ position' = IF pos = <<>> THEN position ELSE pos[1]
    /\ pc' = "dur"
    /\ sent' = <<>>
    /\ call' = [op |-> "monitor_pos"]
    /\ UNCHANGED <<state, current_file, process, duration, volume,
                   mpv_socket, loop>>

\* Mutant of ended: the one-second margin is dropped.
ended_at_duration(pos, dur) == dur > 0 /\ pos >= dur

\* The end-of-playback test, line 352.
ended(pos, dur) == dur > 0 /\ pos >= dur - Second

\* _monitor_position, lines 347-357: query duration, store it, then the
\* end-of-playback test: seek(0) when looping, else state = 'stopped'.
monitor_dur(dur, ok) ==
    LET d == IF dur = <<>> THEN duration ELSE dur[1]
        end == ended(position, d)
    IN
    /\ pc = "dur"
    /\ duration' = d
    /\ IF end /\ loop
       THEN /\ sent' = <<[verb |-> "seek", pos |-> 0, ok |-> ok]>>
            /\ position' = IF ok THEN 0 ELSE position
            /\ state' = state
       ELSE /\ sent' = <<>>
            /\ position' = position
            /\ state' = IF end THEN "stopped" ELSE state
    /\ pc' = "check"
    /\ call' = [op |-> "monitor_dur", ended |-> end]
    /\ UNCHANGED <<current_file, process, volume, mpv_socket, loop>>

\* The engine started by Popen binds its --input-ipc-server socket.
engine_ready ==
    /\ process = "running"
    /\ ~mpv_socket
    /\ mpv_socket' = TRUE
    /\ sent' = <<>>
    /\ call' = [op |-> "engine_ready"]
    /\ UNCHANGED <<state, current_file, process, position, duration, volume,
                   loop, pc>>

\* The engine process exits by itself (end of file, crash, a delivered
\* quit); it may or may not unlink its socket file.
engine_exit(unlink) ==
    /\ process = "running"
    /\ process' = "exited"
    /\ mpv_socket' = (mpv_socket /\ ~unlink)
    /\ sent' = <<>>
    /\ call' = [op |-> "engine_exit"]
    /\ UNCHANGED <<state, current_file, position, duration, volume, loop, pc>>

Play ==
    \E f \in Paths, quit \in send_command, term \in Terminate,
       rm \in BOOLEAN, launch \in Launch :
        play(f, quit, term, rm, launch) /\ no_sync

Pause == \E ok \in send_command : pause(ok) /\ no_sync

Resume == \E ok \in send_command : resume(ok) /\ no_sync

Stop ==
    \E quit \in send_command, term \in Terminate, rm \in BOOLEAN :
        stop(quit, term, rm) /\ no_sync

Seek ==
    \E p \in SeekPositions, ok \in send_command :
        seek(p, ok) /\ no_sync

SetVolume ==
    \E l \in Levels, ok \in send_command :
        set_volume(l, ok) /\ no_sync

GetState == get_state /\ no_sync

MonitorCheck == monitor_check /\ no_sync

MonitorPos ==
    \E pos \in get_property(TimePos) :
        monitor_pos(pos) /\ no_sync

MonitorDur ==
    \E dur \in get_property(Durations), ok \in send_command :
        monitor_dur(dur, ok) /\ no_sync

EngineReady == engine_ready /\ no_sync

EngineExit ==
    \E unlink \in BOOLEAN : engine_exit(unlink) /\ no_sync

Next ==
    \/ Play
    \/ Pause
    \/ Resume
    \/ Stop
    \/ Seek
    \/ SetVolume
    \/ GetState
    \/ MonitorCheck
    \/ MonitorPos
    \/ MonitorDur
    \/ EngineReady
    \/ EngineExit

Spec == Init /\ [][Next]_vars

(***************************************************************************)
(* The subordinate: SyncManager._connect_to_master and the handlers it     *)
(* awaits.  Paths are written relative to the device's media_dir: "a.mp4"  *)
(* stands for media_dir/a.mp4.                                             *)
(***************************************************************************)

\* A step of the sync code that calls no method of the player.
no_player_call(step) ==
    /\ call' = [op |-> step]
    /\ sent' = <<>>
    /\ UNCHANGED <<state, current_file, process, position, duration, volume,
                   mpv_socket, loop, pc>>

\* What a step of a sync thread leaves alone: the configuration, the
\* current manager and the relay tasks.
same_config == UNCHANGED <<sync_mode, master_ip, sync_manager, switch, tasks>>

\* What a step of a subordinate's thread leaves alone besides.
same_roles == same_config /\ UNCHANGED <<port, peers>>

\* The current_file a primary can report: none, a path in a media_dir laid
\* out like the local one, or a path in another directory.
MasterFiles == {None, "a.mp4", "/primary/a.mp4", "/primary/x.mp4"}

\* os.path.basename
basename(path) ==
    CASE path = "/primary/a.mp4" -> "a.mp4"
      [] path = "/primary/x.mp4" -> "x.mp4"
      [] OTHER -> path

\* os.path.join(config['media_dir'], filename)
join_media_dir(filename) == filename

\* The positions and volumes a primary can report.
MasterPositions == {0, MaxDur}
MasterVolumes == {94, 95}

\* The 'data' of a sync message, as _get_player_state builds it.  position
\* is read only from a snapshot whose state is 'playing'.
Snapshots ==
    {s \in [current_file : MasterFiles,
            state : {"playing", "paused", "stopped"},
            position : MasterPositions,
            volume : MasterVolumes] :
        s.state # "playing" => s.position = 0}

\* The 'data' of a command message.
Commands ==
    {[command |-> "play", file |-> "a.mp4"], [command |-> "pause"],
     [command |-> "resume"], [command |-> "stop"],
     [command |-> "seek", position |-> 0]}

\* SyncManager.start: running is set, and the thread of a master or of a
\* slave is created and started.
start(mgr) ==
    IF mgr.running THEN mgr
    ELSE IF mgr.mode = "master"
    THEN [mgr EXCEPT !.running = TRUE, !.sync_thread = TRUE,
                     !.server = "starting"]
    ELSE IF mgr.mode = "slave"
    THEN [mgr EXCEPT !.running = TRUE, !.sync_thread = TRUE,
                     !.conn = "start"]
    ELSE [mgr EXCEPT !.running = TRUE]

\* _connect_to_master, lines 160-167: without a master_ip the coroutine
\* returns and the thread ends.
slave_begin(m) ==
    /\ managers[m].conn = "start"
    /\ managers' = [managers EXCEPT
                      ![m].conn = IF master_ip = "" THEN "exit" ELSE "connect"]
    /\ wire' = <<>>
    /\ no_player_call("slave_begin")
    /\ same_roles

\* Where the outer loop goes when the session ends with an exception that
\* reaches line 196: sleep(5) if still running, else the loop test fails.
after_failure(mgr) == IF mgr.running THEN "backoff" ELSE "exit"

\* Where the outer loop goes after 'break' at line 194: the connection is
\* closed by the async with and the loop test of line 169 follows.
after_error(mgr) == IF mgr.running THEN "connect" ELSE "exit"

\* _connect_to_master, lines 169-173 and 196-202: the loop test, then
\* websockets.connect succeeds or raises.
connect(m, ok) ==
    LET mgr == managers[m] IN
    /\ mgr.conn = "connect"
    /\ managers' = [managers EXCEPT
                      ![m].conn = IF ~mgr.running THEN "exit"
                                  ELSE IF ok THEN "session"
                                  ELSE after_failure(mgr)]
    /\ wire' = <<>>
    /\ no_player_call(IF ~mgr.running THEN "slave_exit"
                      ELSE IF ok THEN "connected" ELSE "connect_failed")
    /\ same_roles

\* asyncio.sleep(5) of line 202 is over.
backoff(m) ==
    /\ managers[m].conn = "backoff"
    /\ managers' = [managers EXCEPT ![m].conn = "connect"]
    /\ wire' = <<>>
    /\ no_player_call("backoff")
    /\ same_roles

\* Line 176 finds running false: the inner loop ends, the async with closes
\* the connection and the outer loop ends.
session_end(m) ==
    /\ managers[m].conn = "session"
    /\ ~managers[m].running
    /\ managers' = [managers EXCEPT ![m].conn = "exit"]
    /\ wire' = <<>>
    /\ no_player_call("slave_exit")
    /\ same_roles

\* Lines 178-181 and 189-191: nothing arrives for 5 s; the heartbeat is sent
\* (ok) or websocket.send raises inside the handler, which ends the
\* session at line 196.
recv_timeout(m, ok) ==
    LET mgr == managers[m] IN
    /\ mgr.conn = "session"
    /\ mgr.running
    /\ managers' = [managers EXCEPT
                      ![m].conn = IF ok THEN "session" ELSE after_failure(mgr)]
    /\ wire' = IF ok THEN <<[type |-> "heartbeat", from |-> m]>> ELSE <<>>
    /\ no_player_call(IF ok THEN "heartbeat" ELSE "heartbeat_failed")
    /\ same_roles

\* Lines 178-183 and 192-194: recv raises (the connection dropped) or the
\* message cannot be handled; the inner loop is left by break.
recv_error(m) ==
    LET mgr == managers[m] IN
    /\ mgr.conn = "session"
    /\ mgr.running
    /\ managers' = [managers EXCEPT ![m].conn = after_error(mgr)]
    /\ wire' = <<>>
    /\ no_player_call("recv_error")
    /\ same_roles

\* Lines 183-185 and 206-207: a sync message arrives and _apply_sync_state
\* starts on its data (and returns at once without a player).
recv_sync(m, s) ==
    LET mgr == managers[m] IN
    /\ mgr.conn = "session"
    /\ mgr.running
    /\ managers' = [managers EXCEPT
                      ![m].conn = IF mgr.player THEN "file" ELSE "session",
                      ![m].data = IF mgr.player THEN s ELSE NoMsg]
    /\ wire' = <<>>
    /\ no_player_call("recv_sync")
    /\ same_roles

\* Mutant of apply_file: a file that is absent locally does not end the
\* tick.
apply_file_no_return(m, quit, term, rm, launch) ==
    LET mgr == managers[m]
        master_file == mgr.data.current_file
        local_path == join_media_dir(basename(master_file))
    IN
    /\ mgr.conn = "file"
    /\ IF master_file # None /\ master_file # current_file
          /\ exists(local_path)
       THEN play(local_path, quit, term, rm, launch)
       ELSE no_player_call("file_kept")
    /\ managers' = [managers EXCEPT ![m].conn = "state"]
    /\ wire' = <<>>
    /\ same_roles

\* _apply_sync_state, lines 211-221: play the local file of the same name
\* when the master's file is another one; return when it is absent.
apply_file(m, quit, term, rm, launch) ==
    LET mgr == managers[m]
        master_file == mgr.data.current_file
        local_path == join_media_dir(basename(master_file))
    IN
    /\ mgr.conn = "file"
    /\ IF master_file # None /\ master_file # current_file
       THEN IF exists(local_path)
            THEN /\ play(local_path, quit, term, rm, launch)
                 /\ managers' = [managers EXCEPT ![m].conn = "state"]
            ELSE /\ no_player_call("file_not_found")
                 /\ managers' = [managers EXCEPT ![m].conn = "session",
                                                 ![m].data = NoMsg]
       ELSE /\ no_player_call("file_kept")
            /\ managers' = [managers EXCEPT ![m].conn = "state"]
    /\ wire' = <<>>
    /\ same_roles

\* _apply_sync_state, line 225: slave_state = self.player.get_state()
apply_state(m) ==
    /\ managers[m].conn = "state"
    /\ get_state
    /\ managers' = [managers EXCEPT ![m].conn = "reconcile",
                                    ![m].slave_state = state']
    /\ wire' = <<>>
    /\ same_roles

\* _apply_sync_state, lines 227-232: resume, pause or stop when the local
\* state read at line 225 is not the master's.
apply_reconcile(m, ok, term, rm) ==
    LET mgr == managers[m]
        master_state == mgr.data.state
    IN
    /\ mgr.conn = "reconcile"
    /\ IF master_state = "playing" /\ mgr.slave_state # "playing"
       THEN resume(ok)
       ELSE IF master_state = "paused" /\ mgr.slave_state # "paused"
       THEN pause(ok)
       ELSE IF master_state = "stopped" /\ mgr.slave_state # "stopped"
       THEN stop(ok, term, rm)
       ELSE no_player_call("reconciled")
    /\ managers' = [managers EXCEPT ![m].conn = "position"]
    /\ wire' = <<>>
    /\ same_roles

\* abs()
abs(x) == IF x < 0 THEN 0 - x ELSE x

\* 0.2 s in ticks: the drift tolerated (line 250) and the latency added to
\* the seek target (line 245).
Tolerance == 1
Latency == 1

\* Playback speeds in percent: 1.05, 0.95 and 1.0.
Faster == 105
Slower == 95
Normal == 100

\* Mutant of correction: a drift of exactly one second is already resynced
\* by a seek.
correction_from_one_second(master_pos, slave_pos) ==
    LET drift == abs(master_pos - slave_pos) IN
    IF drift >= Second
    THEN [do |-> "seek", pos |-> master_pos + Latency]
    ELSE IF drift > Tolerance
    THEN [do |-> "speed",
          speed |-> IF slave_pos < master_pos THEN Faster ELSE Slower]
    ELSE [do |-> "speed", speed |-> Normal]

\* _apply_sync_state, lines 240-259: the correction chosen from the drift.
correction(master_pos, slave_pos) ==
    LET drift == abs(master_pos - slave_pos) IN
    IF drift > Second
    THEN [do |-> "seek", pos |-> master_pos + Latency]
    ELSE IF drift > Tolerance
    THEN [do |-> "speed",
          speed |-> IF slave_pos < master_pos THEN Faster ELSE Slower]
    ELSE [do |-> "speed", speed |-> Normal]

\* MPVController.set_playback_speed
set_playback_speed(speed, ok) ==
    /\ sent' = <<[verb |-> "set_speed", speed |-> speed, ok |-> ok]>>
    /\ call' = [op |-> "set_playback_speed", speed |-> speed, ok |-> ok]
    /\ UNCHANGED <<state, current_file, process, position, duration, volume,
                   mpv_socket, loop, pc>>

\* _apply_sync_state, lines 235-259: against a playing master, seek or set
\* the speed as the drift from self.player.get_position() asks.
apply_position(m, ok) ==
    LET mgr == managers[m]
        c == correction(mgr.data.position, position)
    IN
    /\ mgr.conn = "position"
    /\ IF mgr.data.state # "playing"
       THEN no_player_call("position_skipped")
       ELSE IF c.do = "seek"
       THEN seek(c.pos, ok)
       ELSE set_playback_speed(c.speed, ok)
    /\ managers' = [managers EXCEPT ![m].conn = "volume"]
    /\ wire' = <<>>
    /\ same_roles

\* Mutant of volume_differs: a difference of 5 already counts.
volume_differs_from_5(master_volume, slave_volume) ==
    abs(master_volume - slave_volume) >= 5

\* _apply_sync_state, line 263
volume_differs(master_volume, slave_volume) ==
    abs(master_volume - slave_volume) > 5

\* _apply_sync_state, lines 262-264, the end of the tick.
apply_volume(m, ok) ==
    LET mgr == managers[m] IN
    /\ mgr.conn = "volume"
    /\ IF volume_differs(mgr.data.volume, volume)
       THEN set_volume(mgr.data.volume, ok)
       ELSE no_player_call("volume_kept")
    /\ managers' = [managers EXCEPT ![m].conn = "session",
                                    ![m].data = NoMsg]
    /\ wire' = <<>>
    /\ same_roles

\* A variant of recv_command that passes the command on after executing it.
recv_command_forwarding(m, c, ok, term, rm, launch) ==
    LET mgr == managers[m] IN
    /\ mgr.conn = "session"
    /\ mgr.running
    /\ IF ~mgr.player THEN no_player_call("command_ignored")
       ELSE IF c.command = "play"
       THEN play(join_media_dir(c.file), ok, term, rm, launch)
       ELSE IF c.command = "pause" THEN pause(ok)
       ELSE IF c.command = "resume" THEN resume(ok)
       ELSE IF c.command = "stop" THEN stop(ok, term, rm)
       ELSE seek(c.position, ok)
    /\ wire' = <<[type |-> "command", from |-> m]>>
    /\ UNCHANGED managers
    /\ same_roles

\* Lines 186-187 and _execute_command: a command message arrives and the
\* player method it names is called (play on media_dir/file, unchecked).
recv_command(m, c, ok, term, rm, launch) ==
    LET mgr == managers[m] IN
    /\ mgr.conn = "session"
    /\ mgr.running
    /\ IF ~mgr.player THEN no_player_call("command_ignored")
       ELSE IF c.command = "play"
       THEN play(join_media_dir(c.file), ok, term, rm, launch)
       ELSE IF c.command = "pause" THEN pause(ok)
       ELSE IF c.command = "resume" THEN resume(ok)
       ELSE IF c.command = "stop" THEN stop(ok, term, rm)
       ELSE seek(c.position, ok)
    /\ wire' = <<>>
    /\ UNCHANGED managers
    /\ same_roles

SlaveBegin == \E m \in Managers : slave_begin(m)

Connect == \E m \in Managers, ok \in BOOLEAN : connect(m, ok)

Backoff == \E m \in Managers : backoff(m)

SessionEnd == \E m \in Managers : session_end(m)

RecvTimeout == \E m \in Managers, ok \in BOOLEAN : recv_timeout(m, ok)

RecvError == \E m \in Managers : recv_error(m)

RecvSync == \E m \in Managers, s \in Snapshots : recv_sync(m, s)

RecvCommand ==
    \E m \in Managers, c \in Commands, ok \in send_command,
       term \in Terminate, rm \in BOOLEAN, launch \in Launch :
        recv_command(m, c, ok, term, rm, launch)

ApplyFile ==
    \E m \in Managers, quit \in send_command, term \in Terminate,
       rm \in BOOLEAN, launch \in Launch :
        apply_file(m, quit, term, rm, launch)

ApplyState == \E m \in Managers : apply_state(m)

ApplyReconcile ==
    \E m \in Managers, ok \in send_command, term \in Terminate,
       rm \in BOOLEAN :
        apply_reconcile(m, ok, term, rm)

ApplyPosition ==
    \E m \in Managers, ok \in send_command : apply_position(m, ok)

ApplyVolume == \E m \in Managers, ok \in send_command : apply_volume(m, ok)

\* initialize() with sync_mode 'slave' and a master_ip in the configuration
\* (and 'loop' at its default): the slave manager is constructed with the
\* player and started.
SlaveInit ==
    /\ CtlInit
    /\ ~loop
    /\ sync_mode = "slave"
    /\ master_ip = MasterAddress
    /\ sync_manager = 1
    /\ managers = [m \in Managers |->
                     IF m = 1 THEN start(SyncManager("slave", TRUE))
                     ELSE NoManager]
    /\ port = 0
    /\ peers = [c \in Conns |-> NoPeer]
    /\ switch = NoSwitch
    /\ tasks = <<>>
    /\ wire = <<>>

\* The subordinate device: its sync thread, its monitor thread and its
\* engine, with no request from the local API.
SlaveNext ==
    \/ SlaveBegin
    \/ Connect
    \/ Backoff
    \/ RecvTimeout
    \/ RecvError
    \/ RecvSync
    \/ RecvCommand
    \/ ApplyFile
    \/ ApplyState
    \/ ApplyReconcile
    \/ ApplyPosition
    \/ ApplyVolume
    \/ MonitorCheck
    \/ MonitorPos
    \/ MonitorDur
    \/ EngineReady
    \/ EngineExit

SlaveSpec == SlaveInit /\ [][SlaveNext]_vars

(***************************************************************************)
(* The primary: SyncManager._run_master, the connection handler, the       *)
(* broadcast loop, and the request handlers of app.py that relay.          *)
(***************************************************************************)

\* _get_player_state, as read in a step that calls get_state(): the fields a
\* subordinate reads.
player_state ==
    [current_file |-> current_file', state |-> state',
     position |-> position, volume |-> volume]

\* _run_master.start_server, lines 74-82: serve() binds sync_port, or raises
\* because it is bound already (logged at line 89, the thread ends); once
\* bound, the broadcast task is created.
serve(m) ==
    /\ managers[m].server = "starting"
    /\ IF port = 0
       THEN /\ port' = m
            /\ managers' = [managers EXCEPT ![m].server = "listening",
                                            ![m].bc = "tick"]
       ELSE /\ port' = port
            /\ managers' = [managers EXCEPT ![m].server = "failed"]
    /\ wire' = <<>>
    /\ no_player_call(IF port = 0 THEN "serve" ELSE "serve_failed")
    /\ same_config
    /\ UNCHANGED peers

\* _handle_slave_connection, lines 93-104: the server bound to the port
\* accepts connection c; its manager registers it and, with a player, sends
\* it the current state.
handle_slave_connection(c) ==
    LET m == port IN
    /\ port # 0
    /\ peers[c].mgr = 0
    /\ peers' = [peers EXCEPT ![c] = [mgr |-> m, open |-> TRUE]]
    /\ managers' = [managers EXCEPT ![m].connected_slaves = @ \cup {c}]
    /\ IF managers[m].player
       THEN /\ get_state
            /\ wire' = <<[type |-> "sync", to |-> c, data |-> player_state]>>
       ELSE /\ no_player_call("slave_connected")
            /\ wire' = <<>>
    /\ same_config
    /\ UNCHANGED port

\* The subordinate's end of connection c closes; the handler has not run
\* since.
slave_drop(c) ==
    /\ peers[c].mgr # 0
    /\ peers[c].open
    /\ peers' = [peers EXCEPT ![c].open = FALSE]
    /\ wire' = <<>>
    /\ no_player_call("slave_drop")
    /\ same_config
    /\ UNCHANGED <<managers, port>>

\* Lines 116-120: the handler of a closed connection leaves its loop and its
\* finally clause removes the connection from connected_slaves; set.remove
\* raises KeyError when it is no longer there.
handle_disconnect(c) ==
    LET m == peers[c].mgr IN
    /\ m # 0
    /\ ~peers[c].open
    /\ peers' = [peers EXCEPT ![c] = NoPeer]
    /\ managers' = [managers EXCEPT ![m].connected_slaves = @ \ {c}]
    /\ wire' = <<>>
    /\ no_player_call(IF c \in managers[m].connected_slaves
                      THEN "slave_disconnected" ELSE "KeyError")
    /\ same_config
    /\ UNCHANGED port

\* Mutant of worth_sending: the state is broadcast whatever it is.
always_worth_sending(s) == s \in {"playing", "paused", "stopped"}

\* _broadcast_master_state, line 130: only broadcast if playing.
worth_sending(s) == s = "playing"

\* _get_player_state, lines 308-311, after its call of get_state: the
\* fields are read from the controller one after the other, with no lock,
\* while request threads and the poll loop write them; s is the state that
\* get_state returned.
get_player_state(s) ==
    [current_file |-> current_file, state |-> s,
     position |-> position, volume |-> volume]

\* _broadcast_master_state, lines 124-127 and 147: the loop test; with
\* subordinates and a player the snapshot is begun by get_state (line 307);
\* otherwise the iteration only sleeps.
broadcast_tick(m) ==
    LET mgr == managers[m] IN
    /\ mgr.bc = "tick"
    /\ IF ~mgr.running
       THEN /\ managers' = [managers EXCEPT ![m].bc = "exit"]
            /\ no_player_call("broadcast_exit")
       ELSE IF mgr.connected_slaves # {} /\ mgr.player
       THEN /\ get_state
            /\ managers' = [managers EXCEPT
                              ![m].bc = "read",
                              ![m].message = [type |-> "partial",
                                              state |-> state']]
       ELSE /\ no_player_call("broadcast_idle")
            /\ UNCHANGED managers
    /\ wire' = <<>>
    /\ same_config
    /\ UNCHANGED <<port, peers>>

\* _broadcast_master_state, lines 127-137: the rest of the snapshot is read
\* and a snapshot that says playing starts the for loop over
\* connected_slaves; any other is dropped and the iteration sleeps.
broadcast_read(m) ==
    LET mgr == managers[m]
        snapshot == get_player_state(mgr.message.state)
    IN
    /\ mgr.bc = "read"
    /\ managers' =
          IF worth_sending(snapshot.state)
          THEN [managers EXCEPT
                  ![m].bc = "send",
                  ![m].message = [type |-> "sync", data |-> snapshot],
                  ![m].visited = {},
                  ![m].size = Cardinality(mgr.connected_slaves),
                  ![m].disconnected = {}]
          ELSE [managers EXCEPT ![m].bc = "tick", ![m].message = NoMsg]
    /\ wire' = <<>>
    /\ no_player_call(IF worth_sending(snapshot.state)
                      THEN "broadcast_begin" ELSE "broadcast_skip")
    /\ same_config
    /\ UNCHANGED <<port, peers>>

\* The for loop of lines 137-145, one pass of its iterator: a set whose size
\* changed since the loop began raises RuntimeError (caught at line 148, the
\* tick is abandoned); with no connection left the loop ends and the
\* failed ones are removed; otherwise the message is sent to the next
\* connection, which fails when its other end has closed.
broadcast_send(m, c) ==
    LET mgr == managers[m]
        over == [mgr EXCEPT !.bc = "tick", !.message = NoMsg,
                            !.visited = {}, !.size = 0,
                            !.disconnected = {}]
    IN
    /\ mgr.bc = "send"
    /\ IF Cardinality(mgr.connected_slaves) # mgr.size
       THEN /\ managers' = [managers EXCEPT ![m] = over]
            /\ wire' = <<>>
            /\ no_player_call("broadcast_error")
       ELSE IF mgr.connected_slaves \ mgr.visited = {}
       THEN /\ managers' =
                  [managers EXCEPT
                     ![m] = [over EXCEPT !.connected_slaves =
                                            @ \ mgr.disconnected]]
            /\ wire' = <<>>
            /\ no_player_call("broadcast_done")
       ELSE /\ c \in mgr.connected_slaves \ mgr.visited
            /\ IF peers[c].mgr = m /\ peers[c].open
               THEN /\ managers' = [managers EXCEPT ![m].visited = @ \cup {c}]
                    /\ wire' = <<[type |-> "sync", to |-> c,
                                   data |-> mgr.message.data]>>
                    /\ no_player_call("broadcast_sent")
               ELSE /\ managers' = [managers EXCEPT
                                      ![m].visited = @ \cup {c},
                                      ![m].disconnected = @ \cup {c}]
                    /\ wire' = <<>>
                    /\ no_player_call("broadcast_send_failed")
    /\ same_config
    /\ UNCHANGED <<port, peers>>

\* broadcast_command, lines 339-345: asyncio.get_event_loop().is_running()
\* in the thread of a request handler.  That thread runs no event loop:
\* get_event_loop() raises there, or returns a loop that is not running,
\* and the bare except passes.
loop_is_running == FALSE

\* The relay of a request handler: 'if success and sync_mode == master:
\* sync_manager.broadcast_command(...)', whose task is created only past
\* the guard of line 317 and the test of line 342.
broadcast_command(success, command) ==
    tasks' = IF /\ success
                /\ sync_mode = "master"
                /\ sync_manager # 0
                /\ managers[sync_manager].mode = "master"
                /\ managers[sync_manager].connected_slaves # {}
                /\ loop_is_running
             THEN Append(tasks, command)
             ELSE tasks

\* The file names a play request carries.
ApiFiles == {"a.mp4", "x.mp4"}

\* What a request handler of the playback API leaves alone.
same_sync ==
    /\ wire' = <<>>
    /\ UNCHANGED <<sync_mode, master_ip, sync_manager, managers, port, peers,
                   switch>>

\* api_play with a file: 404 unless media_dir/file exists, else play and
\* relay.
api_play(filename, quit, term, rm, launch) ==
    /\ IF exists(join_media_dir(filename))
       THEN /\ play(join_media_dir(filename), quit, term, rm, launch)
            /\ broadcast_command(call'.ok,
                                 [command |-> "play", file |-> filename])
       ELSE /\ no_player_call("api_play_404")
            /\ UNCHANGED tasks
    /\ same_sync

\* api_play without a file: resume and relay.
api_resume(ok) ==
    /\ resume(ok)
    /\ broadcast_command(call'.ok, [command |-> "resume"])
    /\ same_sync

\* api_pause
api_pause(ok) ==
    /\ pause(ok)
    /\ broadcast_command(call'.ok, [command |-> "pause"])
    /\ same_sync

\* api_stop
api_stop(quit, term, rm) ==
    /\ stop(quit, term, rm)
    /\ broadcast_command(call'.ok, [command |-> "stop"])
    /\ same_sync

\* api_seek
api_seek(pos, ok) ==
    /\ seek(pos, ok)
    /\ broadcast_command(call'.ok, [command |-> "seek", position |-> pos])
    /\ same_sync

Serve == \E m \in Managers : serve(m)

HandleSlaveConnection == \E c \in Conns : handle_slave_connection(c)

SlaveDrop == \E c \in Conns : slave_drop(c)

HandleDisconnect == \E c \in Conns : handle_disconnect(c)

BroadcastTick == \E m \in Managers : broadcast_tick(m)

BroadcastRead == \E m \in Managers : broadcast_read(m)

BroadcastSend == \E m \in Managers, c \in Conns : broadcast_send(m, c)

ApiPlay ==
    \E f \in ApiFiles, quit \in send_command, term \in Terminate,
       rm \in BOOLEAN, launch \in Launch :
        api_play(f, quit, term, rm, launch)

ApiResume == \E ok \in send_command : api_resume(ok)

ApiPause == \E ok \in send_command : api_pause(ok)

ApiStop ==
    \E quit \in send_command, term \in Terminate, rm \in BOOLEAN :
        api_stop(quit, term, rm)

ApiSeek == \E p \in {0, MaxDur}, ok \in send_command : api_seek(p, ok)

\* initialize() with sync_mode 'master' in the configuration (and 'loop' at
\* its default): the master manager is constructed with the player and
\* started.
MasterInit ==
    /\ CtlInit
    /\ ~loop
    /\ sync_mode = "master"
    /\ master_ip = ""
    /\ sync_manager = 1
    /\ managers = [m \in Managers |->
                     IF m = 1 THEN start(SyncManager("master", TRUE))
                     ELSE NoManager]
    /\ port = 0
    /\ peers = [c \in Conns |-> NoPeer]
    /\ switch = NoSwitch
    /\ tasks = <<>>
    /\ wire = <<>>

\* The primary device: its sync thread, the playback requests of its API
\* and its engine.
MasterNext ==
    \/ Serve
    \/ HandleSlaveConnection
    \/ SlaveDrop
    \/ HandleDisconnect
    \/ BroadcastTick
    \/ BroadcastRead
    \/ BroadcastSend
    \/ ApiPlay
    \/ ApiResume
    \/ ApiPause
    \/ ApiStop
    \/ ApiSeek
    \/ EngineReady

MasterSpec == MasterInit /\ [][MasterNext]_vars

(***************************************************************************)
(* The role switch: api_sync_master, api_sync_slave and                    *)
(* api_sync_standalone of app.py, with SyncManager.stop split where it     *)
(* blocks in sync_thread.join(timeout=2).                                  *)
(***************************************************************************)

\* The SyncManager objects not constructed yet.
Unused == {m \in Managers : managers[m].mode = "none"}

\* The first part of a role switch: the configuration is written and
\* stop() of the current manager, if there is one, clears running and
\* starts waiting for its thread.
switch_begin(role, ip) ==
    /\ switch = NoSwitch
    /\ role = "standalone" \/ Unused # {}
    /\ sync_mode' = role
    /\ master_ip' = ip
    /\ managers' = IF sync_manager = 0 THEN managers
                   ELSE [managers EXCEPT ![sync_manager].running = FALSE]
    /\ switch' = [to |-> role]
    /\ wire' = <<>>
    /\ no_player_call("switch_begin")
    /\ UNCHANGED <<sync_manager, port, peers, tasks>>

\* api_sync_master, lines 253-261
api_sync_master == switch_begin("master", "")

\* A variant of api_sync_slave that writes the configuration before it
\* looks at the address.
api_sync_slave_writes_first(ip) ==
    IF ip = ""
    THEN /\ sync_mode' = "slave"
         /\ master_ip' = ip
         /\ no_player_call("api_sync_slave_400")
         /\ wire' = <<>>
         /\ UNCHANGED <<sync_manager, managers, port, peers, switch, tasks>>
    ELSE switch_begin("slave", ip)

\* api_sync_slave, lines 269-282; without a master_ip the request is
\* answered 400 before anything is written.
api_sync_slave(ip) ==
    IF ip = ""
    THEN /\ no_player_call("api_sync_slave_400")
         /\ wire' = <<>>
         /\ UNCHANGED <<sync_mode, master_ip, sync_manager, managers, port,
                        peers, switch, tasks>>
    ELSE switch_begin("slave", ip)

\* api_sync_standalone, lines 291-298
api_sync_standalone == switch_begin("standalone", "")

\* When sync_thread.join(timeout=2) of line 60 can return: the thread has
\* ended, or two seconds pass with it parked in a wait that lasts longer,
\* which are the server's Future of line 84, a connection attempt, the
\* sleep(5) of the backoff and a recv with its timeout of 5 s.  The
\* broadcast loop, which wakes every half second, has seen running false
\* by then.
join_returns(mgr) ==
    /\ mgr.server \in {"none", "failed", "listening"}
    /\ mgr.bc \in {"off", "exit"}
    /\ mgr.conn \in {"off", "exit", "connect", "backoff", "session"}

\* SyncManager.stop, line 61: sync_thread is cleared whether or not the
\* thread has ended.
stopped(mgr) == [mgr EXCEPT !.sync_thread = FALSE]

\* The second part of a role switch: the join of stop() returns and the
\* handler goes on: a master is constructed without a player, a slave with
\* the player, and started; standalone leaves sync_manager None.
switch_end ==
    LET old == IF sync_manager = 0 THEN managers
               ELSE [managers EXCEPT ![sync_manager] = stopped(@)]
        new == CHOOSE m \in Unused : \A n \in Unused : m <= n
    IN
    /\ switch # NoSwitch
    /\ sync_manager # 0 => join_returns(managers[sync_manager])
    /\ IF switch.to = "standalone"
       THEN /\ sync_manager' = 0
            /\ managers' = old
       ELSE /\ sync_manager' = new
            /\ managers' =
                  [old EXCEPT ![new] = start(SyncManager(switch.to,
                                                         switch.to = "slave"))]
    /\ switch' = NoSwitch
    /\ wire' = <<>>
    /\ no_player_call("switch_end")
    /\ UNCHANGED <<sync_mode, master_ip, port, peers, tasks>>

ApiSyncMaster == api_sync_master

ApiSyncSlave == \E ip \in {"", MasterAddress} : api_sync_slave(ip)

ApiSyncStandalone == api_sync_standalone

SwitchEnd == switch_end

\* The roles of a device that starts standalone: the role requests of its
\* API and the threads of the managers they construct, with the player
\* idle.
RoleNext ==
    \/ ApiSyncMaster
    \/ ApiSyncSlave
    \/ ApiSyncStandalone
    \/ SwitchEnd
    \/ Serve
    \/ HandleSlaveConnection
    \/ SlaveDrop
    \/ HandleDisconnect
    \/ BroadcastTick
    \/ SlaveBegin
    \/ Connect
    \/ Backoff
    \/ SessionEnd
    \/ RecvTimeout
    \/ RecvError

\* app.py with its default configuration: standalone, no manager.
RoleInit == Init /\ ~loop

RoleSpec == RoleInit /\ [][RoleNext]_vars

\* The device made primary by a request while its controller is in use:
\* api_sync_master and the threads of the managers it stops and creates,
\* with the playback requests of the API.
SwitchedNext ==
    \/ ApiSyncMaster
    \/ SwitchEnd
    \/ Serve
    \/ HandleSlaveConnection
    \/ SlaveDrop
    \/ HandleDisconnect
    \/ BroadcastTick
    \/ ApiPlay
    \/ ApiStop
    \/ EngineReady

SwitchedSpec == RoleInit /\ [][SwitchedNext]_vars

(***************************************************************************)
(* Properties of the playback controller.                                  *)
(***************************************************************************)

\* C1: in every reachable state, lifecycle Stopped implies currentFile is
\* none, position is 0 and duration is 0.
C1_StoppedIsCleared ==
    state = "stopped" => (current_file = None /\ position = 0 /\ duration = 0)

\* C2: when stop() has returned, whatever happened to the quit command and
\* to the termination of the process, the lifecycle is Stopped, currentFile
\* is none, position and duration are 0.
C2_StopAlwaysStops ==
    call.op = "stop" =>
        (state = "stopped" /\ current_file = None
            /\ position = 0 /\ duration = 0)

\* C3: play(path) with a path that does not exist returns failure and leaves
\* the current playback (PlaybackState and the engine process) as it was.
C3_PlayMissingChangesNothing ==
    [][(call'.op = "play" /\ ~exists(call'.file)) =>
            (~call'.ok /\ UNCHANGED <<playback, process>>)]_vars

\* C4: pause() issues exactly one toggle command; if it succeeds the
\* lifecycle flips Playing->Paused or Paused->Playing and pause() returns
\* success; if it fails the lifecycle is unchanged and pause() returns failure.
C4_PauseToggles ==
    [][call'.op = "pause" =>
        /\ Len(sent') = 1
        /\ sent'[1].verb = "cycle"
        /\ call'.ok = sent'[1].ok
        /\ sent'[1].ok =>
              /\ state = "playing" => state' = "paused"
              /\ state = "paused" => state' = "playing"
        /\ ~sent'[1].ok => state' = state
        /\ UNCHANGED <<current_file, position, duration, volume>>]_vars

\* C4 witness: a successful pause() has just flipped Playing to Paused.
C4_Witness ==
    /\ call.op = "pause"
    /\ call.ok
    /\ state = "paused"

\* C5 as claimed: resume() is a no-op success when Playing and in every other
\* state (Paused, Stopped) issues the toggle and returns its outcome.
C5_ResumeDelegatesUnlessPlaying ==
    [][call'.op = "resume" =>
        IF state = "playing"
        THEN sent' = <<>> /\ call'.ok /\ UNCHANGED playback
        ELSE /\ Len(sent') = 1
             /\ sent'[1].verb = "cycle"
             /\ call'.ok = sent'[1].ok]_vars

\* C5 amended: resume() issues the toggle, and returns its outcome, only when
\* the lifecycle is Paused (success then makes it Playing); when Playing or
\* Stopped it is a no-op returning success.
C5_ResumeDelegatesOnlyWhenPaused ==
    [][call'.op = "resume" =>
        IF state = "paused"
        THEN /\ Len(sent') = 1
             /\ sent'[1].verb = "cycle"
             /\ call'.ok = sent'[1].ok
             /\ state' = IF sent'[1].ok THEN "playing" ELSE "paused"
        ELSE sent' = <<>> /\ call'.ok /\ UNCHANGED playback]_vars

\* C5 witness: resume() on a Stopped controller whose engine still answers
\* (playback ended by the poll loop) returned success without sending
\* anything to the engine.
C5_Witness ==
    /\ call.op = "resume"
    /\ state = "stopped"
    /\ mpv_socket /\ process = "running"
    /\ sent = <<>>
    /\ call.ok

\* C6: seek(p) sends one absolute seek to p; on success position becomes p
\* and seek returns success; on failure it returns failure and no
\* PlaybackState field changes.
C6_SeekUpdatesOnSuccess ==
    [][call'.op = "seek" =>
        /\ Len(sent') = 1
        /\ sent'[1].verb = "seek"
        /\ sent'[1].pos = call'.pos
        /\ call'.ok = sent'[1].ok
        /\ sent'[1].ok =>
              (position' = call'.pos
                  /\ UNCHANGED <<state, current_file, duration, volume>>)
        /\ ~sent'[1].ok => UNCHANGED playback]_vars

\* C6 witness: a live engine has just rejected a seek to a position other
\* than the cached one.
C6_Witness ==
    /\ call.op = "seek"
    /\ ~call.ok
    /\ mpv_socket /\ process = "running"
    /\ position # call.pos

\* C7: set_volume(level) sets the cached volume to the clamped level when
\* the command succeeds, and keeps the previous volume when it fails.
C7_VolumeOnlyOnSuccess ==
    [][call'.op = "set_volume" =>
        volume' = IF call'.ok THEN clamp(call'.level) ELSE volume]_vars

\* C8: when the poll loop, with lifecycle Playing, finds duration > 0 and
\* position >= duration - 1: with looping it issues seek(0) and the
\* lifecycle stays Playing; without, the lifecycle becomes Stopped and
\* currentFile keeps its value.
C8_EndOfStream ==
    [][(/\ call'.op = "monitor_dur"
        /\ state = "playing"
        /\ duration' > 0
        /\ position >= duration' - Second) =>
            IF loop
            THEN /\ Len(sent') = 1
                 /\ sent'[1].verb = "seek"
                 /\ sent'[1].pos = 0
                 /\ state' = "playing"
            ELSE /\ state' = "stopped"
                 /\ current_file' = current_file
                 /\ sent' = <<>>]_vars

\* C8 witness: without looping, the poll loop has just ended playback and
\* the file that was playing is still the current file.
C8_Witness ==
    /\ call.op = "monitor_dur"
    /\ call.ended
    /\ ~loop
    /\ state = "stopped"
    /\ current_file \in MediaFiles

\* C9: when the engine process has exited without stop(), get_state() makes
\* the lifecycle Stopped and clears currentFile, whatever the lifecycle was.
C9_ProcessExitDetected ==
    [][(call'.op = "get_state" /\ process = "exited") =>
            (state' = "stopped" /\ current_file' = None)]_vars

\* C9 witness: get_state() has just observed an exited engine process.
C9_Witness ==
    /\ call.op = "get_state"
    /\ process = "exited"
    /\ state = "stopped"
    /\ current_file = None

\* One change of lifecycle allowed by the state machine of C10.
Legal(from, to, op) ==
    \/ from = to
    \/ from = "stopped" /\ to = "playing" /\ op = "play"
    \/ from = "playing" /\ to = "paused" /\ op \in {"pause", "resume"}
    \/ from = "paused" /\ to = "playing" /\ op \in {"pause", "resume"}
    \/ from \in {"playing", "paused"} /\ to = "stopped"
         /\ op \in {"stop", "get_state", "monitor_dur"}

\* C10: every change of lifecycle follows the state machine.  play() changes
\* it twice, by its own stop() and then by the launch.
C10_LifecycleStateMachine ==
    [][IF call'.op = "play"
       THEN Legal(state, call'.via, "stop") /\ Legal(call'.via, state', "play")
       ELSE Legal(state, state', call'.op)]_vars

(***************************************************************************)
(* Properties of the subordinate.                                          *)
(***************************************************************************)

\* C13: on the subordinate every connection attempt but the first follows a
\* backoff: after a failed connect and after a drop or receive error in a
\* session alike, the loop of a running manager waits before it connects
\* again.
C13_BackoffAfterAnyFailure ==
    [][\A m \in Managers :
          (managers'[m].conn = "connect" /\ managers[m].conn # "connect")
              => managers[m].conn \in {"start", "backoff"}]_vars

\* C16: the position step of a tick whose snapshot is playing chooses from
\* drift = |S.position - L.position| alone: above 1 s it seeks to
\* S.position + 0.2 s and sets no speed; above 0.2 s and up to 1 s it sets
\* the speed to 1.05 when the local position is behind and 0.95 when it is
\* ahead, without seeking; up to 0.2 s it sets the speed to 1.0, without
\* seeking.
C16_DriftCorrection ==
    [][\A m \in Managers :
          (managers[m].conn = "position" /\ managers'[m].conn = "volume") =>
              (managers[m].data.state = "playing" =>
                  LET S == managers[m].data.position
                      L == position
                      drift == IF S > L THEN S - L ELSE L - S
                  IN
                  /\ Len(sent') = 1
                  /\ IF drift > 5
                     THEN sent'[1].verb = "seek" /\ sent'[1].pos = S + 1
                     ELSE /\ sent'[1].verb = "set_speed"
                          /\ sent'[1].speed =
                                 IF drift <= 1 THEN 100
                                 ELSE IF L < S THEN 105 ELSE 95)]_vars

\* C16 witness: the position step has just answered a drift above one
\* second with a seek to the master's position plus the latency.
C16_Witness ==
    \E m \in Managers :
        /\ managers[m].conn = "volume"
        /\ managers[m].data.state = "playing"
        /\ call.op = "seek"
        /\ call.pos = managers[m].data.position + 1

\* C17: the file step of a tick whose snapshot names a file other than the
\* local current file plays media_dir/basename when that file exists;
\* when it does not, the step ends the tick and leaves state, current_file,
\* position and volume as they were and sends the engine nothing (so the
\* speed is untouched).
C17_FileResolution ==
    [][\A m \in Managers :
          (managers[m].conn = "file" /\ managers'[m].conn # "file") =>
              LET f == managers[m].data.current_file IN
              (f # None /\ f # current_file) =>
                  IF f \in {"a.mp4", "/primary/a.mp4"}
                  THEN call'.op = "play" /\ call'.file = "a.mp4"
                  ELSE /\ managers'[m].conn = "session"
                       /\ UNCHANGED <<state, current_file, position, volume>>
                       /\ sent' = <<>>]_vars

\* C17 witness: a snapshot naming /primary/a.mp4 has just made the
\* subordinate play its own a.mp4.
C17_Witness ==
    \E m \in Managers :
        /\ managers[m].conn = "state"
        /\ managers[m].data.current_file = "/primary/a.mp4"
        /\ call.op = "play"
        /\ call.file = "a.mp4"
        /\ current_file = "a.mp4"
        /\ state = "playing"

\* C18: the reconcile step of a tick leaves the local lifecycle equal to the
\* snapshot's, whenever the snapshot names a file, the engine is running
\* with its socket bound, the local lifecycle is still the one the tick
\* read and the call the step makes returns success.
C18_LifecycleReconciled ==
    [][\A m \in Managers :
          (managers[m].conn = "reconcile" /\ managers'[m].conn = "position")
              => ((/\ managers[m].data.current_file # None
                   /\ managers[m].slave_state = state
                   /\ process = "running"
                   /\ mpv_socket
                   /\ call'.op \in {"resume", "pause", "stop"} => call'.ok)
                      => state' = managers[m].data.state)]_vars

\* C19 as stated: the step that ends a tick, whichever it is, has set the
\* local volume to S.volume if |S.volume - L.volume| > 5 and has left it
\* unchanged otherwise.
C19_VolumeEveryTick ==
    [][\A m \in Managers :
          (managers[m].conn \in {"file", "volume"}
           /\ managers'[m].conn = "session") =>
              LET S == managers[m].data.volume
                  d == IF S > volume THEN S - volume ELSE volume - S
              IN volume' = IF d > 5 THEN S ELSE volume]_vars

\* C19 amended: a tick that is not ended by its file step (the snapshot's
\* file is not absent locally) sets the local volume to S.volume exactly
\* when |S.volume - L.volume| > 5.
C19_VolumeUnlessSkipped ==
    [][\A m \in Managers :
          (managers[m].conn = "volume" /\ managers'[m].conn = "session") =>
              LET S == managers[m].data.volume
                  d == IF S > volume THEN S - volume ELSE volume - S
              IN volume' = IF d > 5 THEN S ELSE volume]_vars

\* C19 witness: the volume step has just set a local volume of 100 to the
\* snapshot's 94.
C19_Witness ==
    /\ call.op = "set_volume"
    /\ call.level = 94
    /\ volume = 94
    /\ \E m \in Managers : managers[m].mode = "slave"

(***************************************************************************)
(* Properties of the primary.                                              *)
(***************************************************************************)

C12_CommandRelay ==
    [][(/\ call'.op \in {"play", "pause", "resume", "stop", "seek"}
        /\ call'.ok
        /\ sync_mode = "master"
        /\ sync_manager # 0
        /\ managers[sync_manager].connected_slaves # {})
           => /\ Len(tasks') = Len(tasks) + 1
              /\ tasks'[Len(tasks')].command = call'.op]_vars

(***************************************************************************)
(* Properties of the role switch.                                          *)
(***************************************************************************)

\* C14: once the role is Disabled no server is bound to the sync port, and
\* so a primary's bind never fails against a manager that was stopped.
C14_PrimaryAgain ==
    /\ (sync_manager = 0 /\ switch = NoSwitch) => port = 0
    /\ \A m \in Managers :
          managers[m].server = "failed" => managers[port].running

\* C15: a manager whose stop() has returned has no loop left: its server
\* is not starting or listening, its broadcast loop and its connect/receive
\* loop have exited (or never ran).
C15_StopTerminatesLoops ==
    \A m \in Managers :
        (/\ managers[m].mode # "none"
         /\ ~managers[m].running
         /\ m # sync_manager)
            => /\ managers[m].server \notin {"starting", "listening"}
               /\ managers[m].bc \in {"off", "exit"}
               /\ managers[m].conn \in {"off", "exit"}

\* C20: at most one manager of the device is in a session with the primary,
\* that is, holds a connection and runs the receive loop on it.
C20_OneReceiveLoop ==
    Cardinality({m \in Managers :
                    managers[m].conn \in {"session", "file", "state",
                                          "reconcile", "position",
                                          "volume"}}) <= 1

(***************************************************************************)
(* Properties of the controller's threads and of its engine.               *)
(***************************************************************************)

\* C27: a step of the poll loop taken while the lifecycle is Paused or
\* Stopped leaves position and duration as they were.
C27_PollOnlyWhilePlaying ==
    [][(call'.op \in {"monitor_check", "monitor_pos", "monitor_dur"}
        /\ state # "playing")
           => UNCHANGED <<position, duration>>]_vars

\* C28: whenever the lifecycle is Stopped, no engine process started by the
\* controller is running and the control socket is gone.
C28_StoppedMeansNoEngine ==
    state = "stopped" => (process # "running" /\ ~mpv_socket)

(***************************************************************************)
(* Properties of the role requests.                                        *)
(***************************************************************************)

\* C24: a request for the subordinate role without a primary address is
\* answered with an error and leaves the configured role, the primary
\* address and the existing manager as they were.
C24_SlaveWithoutAddressRejected ==
    [][call'.op = "api_sync_slave_400"
          => UNCHANGED <<sync_mode, master_ip, sync_manager, managers>>]_vars

\* The request is refused while a manager of another role is running.
C24_Witness ==
    /\ call.op = "api_sync_slave_400"
    /\ sync_mode = "master"
    /\ sync_manager # 0
    /\ managers[sync_manager].running

(***************************************************************************)
(* Properties of the primary's snapshots and of its registry.              *)
(***************************************************************************)

\* C21: every snapshot the broadcast loop builds is the PlaybackState of one
\* instant.  No PlaybackState has lifecycle Playing without a current file,
\* so no snapshot the loop completes says playing with current_file None.
C21_SnapshotOfOneInstant ==
    [][\A m \in Managers :
          (managers[m].bc = "read" /\ managers'[m].bc = "send")
              => managers'[m].message.data.current_file # None]_vars

\* C22: while the for loop of a broadcast tick is iterating the registry,
\* no step changes the registry except the loop's own removal of the failed
\* connections at its end, and no tick is abandoned before it has been
\* through every connection.
C22_RegistryStableWhileIterated ==
    [][\A m \in Managers :
          managers[m].bc = "send"
              => /\ call'.op # "broadcast_error"
                 /\ \/ managers'[m].connected_slaves
                          = managers[m].connected_slaves
                    \/ call'.op = "broadcast_done"]_vars

\* C25: when the for loop of a broadcast tick in which a send failed ends,
\* every connection whose send failed has left the registry and every other
\* registered connection has been sent the message.
C25_FailedSendPrunedSameTick ==
    [][\A m \in Managers :
          (/\ managers[m].bc = "send"
           /\ managers'[m].bc # "send"
           /\ managers[m].disconnected # {})
              => /\ managers'[m].connected_slaves
                       \cap managers[m].disconnected = {}
                 /\ managers[m].connected_slaves
                       \subseteq managers[m].visited]_vars

\* C29: the clean-up of a connection handler, run after a failed send has
\* already pruned its connection from the registry, raises nothing and
\* leaves the connection out of the registry.
C29_CleanupAfterPrune ==
    [][\A c \in Conns :
          (/\ peers[c].mgr # 0
           /\ peers'[c].mgr = 0
           /\ c \notin managers[peers[c].mgr].connected_slaves)
              => /\ call'.op = "slave_disconnected"
                 /\ c \notin managers'[peers[c].mgr].connected_slaves]_vars

(***************************************************************************)
(* Properties of the subordinate's messages.                               *)
(***************************************************************************)

\* C23: a subordinate never forwards: no step of a subordinate, the
\* execution of a relayed command and the application of a snapshot
\* included, puts anything but a heartbeat on a connection or hands the
\* event loop a relay task.
C23_SubordinateNeverForwards ==
    [][/\ \A i \in 1..Len(wire') : wire'[i].type = "heartbeat"
       /\ tasks' = tasks]_vars

\* A relayed seek to position 0 has just been executed on the subordinate's
\* own controller, and nothing was sent.
C23_Witness ==
    /\ sync_mode = "slave"
    /\ call.op = "seek"
    /\ call.pos = 0
    /\ call.ok
    /\ position = 0
    /\ wire = <<>>

(***************************************************************************)
(* Properties of the primary made by a role request.                       *)
(***************************************************************************)

\* C26: a running primary manager with a registered subordinate begins a
\* snapshot on every tick of its broadcast loop that finds the controller
\* Playing, also when the manager was created by the role request: no such
\* tick only sleeps.
C26_SwitchedPrimaryPushes ==
    [][\A m \in Managers :
          (/\ managers[m].mode = "master"
           /\ managers[m].running
           /\ managers[m].bc = "tick"
           /\ managers[m].connected_slaves # {}
           /\ state = "playing")
              => call'.op # "broadcast_idle"]_vars

====
